---- MODULE Spec2Model ----
(***************************************************************************)
(* ssecat (ssed.go): a Server-Sent-Events broker.                          *)
(*                                                                         *)
(* Goroutines modelled:                                                    *)
(*   - Broker.listen, the coordination loop (loopPc, s, event, todo, cur)  *)
(*   - one Broker.ServeHTTP handler per connection (hpc, hmsg)             *)
(*   - the close-notify goroutine each handler spawns (wpc)                *)
(*   - the producer: the stdin goroutine of main, or PromptHandler under  *)
(*     -p (prodPc, line)                                                   *)
(* Specifications: Spec is main reading stdin without -v; FairSpec adds the *)
(* scheduler's fairness; InputSpec is main under every flag and input;     *)
(* DriverSpec is Broker.listen alone, driven through its channels.         *)
(* Channels: Notifier is buffered (capacity 1); newClients, closingClients *)
(* and every messageChan are unbuffered, so a send and its receive are one *)
(* joint step of the two goroutines.  A connection's messageChan is        *)
(* identified by the connection's number.                                  *)
(***************************************************************************)
EXTENDS Integers, Sequences, FiniteSets, TLC

\* Bounds of the model
MaxConns == 2
MaxMsgs == 2
\* connections accepted in InputSpec, requests issued in DriverSpec
InputConns == 1
MaxReqs == 3

\* make(chan []byte, 1)
NotifierCap == 1

Conns == 1..MaxConns
Msgs == 1..MaxMsgs

VARIABLES
    clients,     \* broker.clients: the set of keys of the map
    Notifier,    \* broker.Notifier: buffered channel content
    loopPc,      \* listen: "select" | "register" | "unregister" | "range" | "send"
    s,           \* listen: the channel received in a select case (0: none)
    event,       \* listen: the event being fanned out (0: none)
    todo,        \* listen: keys the range statement has not produced yet
    cur,         \* listen: clientMessageChan of the current iteration (0: none)
    sending,     \* senders blocked on a messageChan: <<channel, message>>
    hpc,         \* ServeHTTP per connection
    hmsg,        \* ServeHTTP: the value received from messageChan (0: none)
    wpc,         \* close-notify goroutine per connection
    tr,          \* transport of the connection
    prodPc,      \* producer: "scan" | "send" | "log" | "done" (stdin mode),
                 \* "prompt" | "read" | "perr" | "psend" (PromptHandler)
    line,        \* producer: the line just scanned (message number)
    nread,       \* producer: lines scanned so far
    verbose,     \* the -v flag
    over,        \* messages still referenced by a channel or by listen whose
                 \* bytes a later read of the producer has overwritten
    nreq,        \* DriverSpec: requests issued so far
    \* history variables
    processed,   \* messages in the order listen dequeued them
    snap,        \* snap[i]: broker.clients when processed[i] was dequeued
    rcvd,        \* per connection: messages its handler received, in order
    deregs,      \* per connection: completed sends on closingClients
    goneQ,       \* per message in the Notifier: the connections whose disconnect
                 \* had been reported when it was published
    goneEv       \* the same for the event being fanned out

vars == <<clients, Notifier, loopPc, s, event, todo, cur, sending, hpc, hmsg,
          wpc, tr, prodPc, line, nread, verbose, over, nreq, processed, snap, rcvd, deregs, goneQ, goneEv>>

loopVars == <<clients, loopPc, s, event, todo, cur, sending>>
histVars == <<processed, snap, rcvd, deregs, goneQ, goneEv>>
prodVars == <<prodPc, line, nread, verbose, over, nreq>>

\* NewServer, and no connection accepted yet
InitBroker ==
    /\ clients = {}
    /\ Notifier = <<>>
    /\ loopPc = "select"
    /\ s = 0
    /\ event = 0
    /\ todo = {}
    /\ cur = 0
    /\ sending = {}
    /\ hpc = [c \in Conns |-> "idle"]
    /\ hmsg = [c \in Conns |-> 0]
    /\ wpc = [c \in Conns |-> "none"]
    /\ tr = [c \in Conns |-> "none"]
    /\ line = 0
    /\ nread = 0
    /\ over = {}
    /\ nreq = 0
    /\ processed = <<>>
    /\ snap = <<>>
    /\ rcvd = [c \in Conns |-> <<>>]
    /\ deregs = [c \in Conns |-> 0]
    /\ goneQ = <<>>
    /\ goneEv = {}

\* main without -p and without -v: the stdin goroutine is the producer
Init ==
    /\ InitBroker
    /\ prodPc = "scan"
    /\ verbose = FALSE

\* main with any flags: under -p PromptHandler is the producer and -v has
\* no effect
InitInput ==
    /\ InitBroker
    /\ prodPc \in {"scan", "prompt"}
    /\ verbose \in BOOLEAN
    /\ prodPc = "prompt" => ~verbose

(***************************************************************************)
(* The producer: the stdin goroutine of main, or PromptHandler             *)
(***************************************************************************)
\* A message is the slice the producer sends: it refers to the read buffer
\* of the bufio.Scanner or bufio.Reader and is never copied.  InFlight is
\* the set of messages whose slice a channel or listen still holds.
InFlight ==
    {m \in Msgs : \/ \E i \in DOMAIN Notifier : Notifier[i] = m
                  \/ event = m
                  \/ \E p \in sending : p[2] = m}

\* What a reader of the slice finds instead of the line once a later read
\* has reused that part of the buffer
Garbled == MaxMsgs + 1

\* The bytes a receiver of message m formats
Bytes(m) == IF m \in over THEN Garbled ELSE m

\* scan.Scan() returns the next line; the read behind it may reuse the part
\* of the buffer that the slices in ow refer to
ScanLine(ow) ==
    /\ prodPc = "scan"
    /\ nread < MaxMsgs
    /\ nread' = nread + 1
    /\ line' = nread + 1
    /\ over' = over \cup ow
    /\ prodPc' = "send"
    /\ UNCHANGED <<loopVars, Notifier, hpc, hmsg, wpc, tr, verbose, nreq, histVars>>

\* scan.Scan() returns a line read into a part of the buffer no slice
\* refers to
ProducerScan == ScanLine({})

\* scan.Scan() returns a line, wherever in the buffer it was read
ProducerScanAny == \E ow \in SUBSET InFlight : ScanLine(ow)

\* scan.Scan() returns false (end of input or a read error): the goroutine
\* ends
ProducerScanEnd ==
    /\ prodPc = "scan"
    /\ prodPc' = "done"
    /\ UNCHANGED <<loopVars, Notifier, hpc, hmsg, wpc, tr, line, nread, verbose,
                   over, nreq, histVars>>

\* Mutant: the Notifier is made with room for two messages
ProducerSend_Cap2 ==
    /\ prodPc = "send"
    /\ Len(Notifier) < NotifierCap + 1
    /\ Notifier' = Append(Notifier, line)
    /\ goneQ' = Append(goneQ, {c \in Conns : tr[c] = "closed"})
    /\ prodPc' = IF verbose THEN "log" ELSE "scan"
    /\ UNCHANGED <<loopVars, line, nread, verbose, over, nreq, hpc, hmsg,
                   wpc, tr, processed, snap, rcvd, deregs, goneEv>>

\* broker.Notifier <- scan.Bytes(): blocks while the buffer is full
ProducerSend ==
    /\ prodPc = "send"
    /\ Len(Notifier) < NotifierCap
    /\ Notifier' = Append(Notifier, line)
    /\ goneQ' = Append(goneQ, {c \in Conns : tr[c] = "closed"})
    /\ prodPc' = IF verbose THEN "log" ELSE "scan"
    /\ UNCHANGED <<loopVars, line, nread, verbose, over, nreq, hpc, hmsg,
                   wpc, tr, processed, snap, rcvd, deregs, goneEv>>

\* under -v: fmt.Printf of len(broker.clients) and scan.Bytes(), a read of
\* the map outside listen
ProducerLog ==
    /\ prodPc = "log"
    /\ prodPc' = "scan"
    /\ UNCHANGED <<loopVars, Notifier, hpc, hmsg, wpc, tr, line, nread, verbose,
                   over, nreq, histVars>>

\* PromptHandler: fmt.Printf of len(broker.clients), a read of the map
\* outside listen
PromptPrint ==
    /\ prodPc = "prompt"
    /\ prodPc' = "read"
    /\ UNCHANGED <<loopVars, Notifier, hpc, hmsg, wpc, tr, line, nread, verbose,
                   over, nreq, histVars>>

\* PromptHandler: reader.ReadLine() returns a line, and len(line) > 0 decides
\* whether it is sent
PromptReadLine ==
    /\ prodPc = "read"
    /\ nread < MaxMsgs
    /\ \E isEmpty \in BOOLEAN, ow \in SUBSET InFlight :
         /\ over' = over \cup ow
         /\ prodPc' = IF isEmpty THEN "prompt" ELSE "psend"
    /\ nread' = nread + 1
    /\ line' = nread + 1
    /\ UNCHANGED <<loopVars, Notifier, hpc, hmsg, wpc, tr, verbose, nreq, histVars>>

\* PromptHandler: reader.ReadLine() returns an error, which is printed
PromptReadErr ==
    /\ prodPc = "read"
    /\ prodPc' = "perr"
    /\ UNCHANGED <<loopVars, Notifier, hpc, hmsg, wpc, tr, line, nread, verbose,
                   over, nreq, histVars>>

\* PromptHandler after the error: line is nil, nothing is sent, next round
PromptAfterErr ==
    /\ prodPc = "perr"
    /\ prodPc' = "prompt"
    /\ UNCHANGED <<loopVars, Notifier, hpc, hmsg, wpc, tr, line, nread, verbose,
                   over, nreq, histVars>>

\* PromptHandler: broker.Notifier <- []byte(line)
PromptSend ==
    /\ prodPc = "psend"
    /\ Len(Notifier) < NotifierCap
    /\ Notifier' = Append(Notifier, line)
    /\ goneQ' = Append(goneQ, {c \in Conns : tr[c] = "closed"})
    /\ prodPc' = "prompt"
    /\ UNCHANGED <<loopVars, line, nread, verbose, over, nreq, hpc, hmsg,
                   wpc, tr, processed, snap, rcvd, deregs, goneEv>>

(***************************************************************************)
(* Broker.listen                                                           *)
(***************************************************************************)
\* Mutant: the newClients case does not store the channel
RegisterClient_Skip(cl, ch) == cl

\* broker.clients[s] = true
RegisterClient(cl, ch) == cl \cup {ch}

\* Mutant: the closingClients case does not delete the channel
UnregisterClient_Noop(cl, ch) == cl

\* Mutant: the closingClients case flips the entry
\* (broker.clients[s] = !broker.clients[s] with absent read as false)
UnregisterClient_Toggle(cl, ch) == IF ch \in cl THEN cl \ {ch} ELSE cl \cup {ch}

\* delete(broker.clients, s)
UnregisterClient(cl, ch) == cl \ {ch}

\* Mutant: the handler's send does not wait for listen
\* (select { case broker.newClients <- messageChan: default: }), so the
\* request is lost while listen is busy
LoopRecvNew_NoWait(c) ==
    /\ hpc[c] = "register"
    /\ IF loopPc = "select"
         THEN s' = c /\ loopPc' = "register"
         ELSE UNCHANGED <<s, loopPc>>
    /\ hpc' = [hpc EXCEPT ![c] = "setup"]
    /\ UNCHANGED <<clients, event, todo, cur, sending, Notifier, hmsg, wpc, tr,
                   prodVars, histVars>>

\* case s := <-broker.newClients, joint with the handler's send of line 66
LoopRecvNew(c) ==
    /\ loopPc = "select"
    /\ hpc[c] = "register"
    /\ s' = c
    /\ loopPc' = "register"
    /\ hpc' = [hpc EXCEPT ![c] = "setup"]
    /\ UNCHANGED <<clients, event, todo, cur, sending, Notifier, hmsg, wpc, tr,
                   prodVars, histVars>>

\* the body of the newClients case
LoopRegister ==
    /\ loopPc = "register"
    /\ clients' = RegisterClient(clients, s)
    /\ s' = 0
    /\ loopPc' = "select"
    /\ UNCHANGED <<event, todo, cur, sending, Notifier, hpc, hmsg, wpc, tr,
                   prodVars, histVars>>

\* case s := <-broker.closingClients, joint with the deferred send of line 71
LoopRecvClosingDefer(c) ==
    /\ loopPc = "select"
    /\ hpc[c] = "defer"
    /\ s' = c
    /\ loopPc' = "unregister"
    /\ hpc' = [hpc EXCEPT ![c] = "done"]
    /\ deregs' = [deregs EXCEPT ![c] = @ + 1]
    /\ UNCHANGED <<clients, event, todo, cur, sending, Notifier, hmsg, wpc, tr,
                   prodVars, processed, snap, rcvd, goneQ, goneEv>>

\* case s := <-broker.closingClients, joint with the send of line 79
LoopRecvClosingNotify(c) ==
    /\ loopPc = "select"
    /\ wpc[c] = "send"
    /\ s' = c
    /\ loopPc' = "unregister"
    /\ wpc' = [wpc EXCEPT ![c] = "done"]
    /\ deregs' = [deregs EXCEPT ![c] = @ + 1]
    /\ UNCHANGED <<clients, event, todo, cur, sending, Notifier, hpc, hmsg, tr,
                   prodVars, processed, snap, rcvd, goneQ, goneEv>>

\* the body of the closingClients case
LoopUnregister ==
    /\ loopPc = "unregister"
    /\ clients' = UnregisterClient(clients, s)
    /\ s' = 0
    /\ loopPc' = "select"
    /\ UNCHANGED <<event, todo, cur, sending, Notifier, hpc, hmsg, wpc, tr,
                   prodVars, histVars>>

\* case event := <-broker.Notifier, and the start of the range over the map
LoopDequeue ==
    /\ loopPc = "select"
    /\ Notifier # <<>>
    /\ event' = Head(Notifier)
    /\ Notifier' = Tail(Notifier)
    /\ todo' = clients
    /\ loopPc' = "range"
    /\ processed' = Append(processed, Head(Notifier))
    /\ snap' = Append(snap, clients)
    /\ goneEv' = Head(goneQ)
    /\ goneQ' = Tail(goneQ)
    /\ UNCHANGED <<clients, s, cur, sending, hpc, hmsg, wpc, tr, prodVars,
                   rcvd, deregs>>

\* Mutant: the send is started in a goroutine of its own
\* (go func() { clientMessageChan <- event }()) and the loop does not wait
LoopOffer_Async ==
    /\ loopPc = "range"
    /\ todo # {}
    /\ \E c \in todo :
         /\ todo' = todo \ {c}
         /\ sending' = sending \cup {<<c, event>>}
    /\ UNCHANGED <<clients, loopPc, s, event, cur, Notifier, hpc, hmsg, wpc, tr,
                   prodVars, histVars>>

\* Mutant: the iteration does not advance past the key it has just served
LoopOffer_Repeat ==
    /\ loopPc = "range"
    /\ todo # {}
    /\ \E c \in todo :
         /\ cur' = c
         /\ sending' = sending \cup {<<c, event>>}
    /\ loopPc' = "send"
    /\ UNCHANGED <<clients, s, event, todo, Notifier, hpc, hmsg, wpc, tr,
                   prodVars, histVars>>

\* the range produces the next key, in no specified order, and
\* clientMessageChan <- event starts: the loop blocks until it is received
LoopOffer ==
    /\ loopPc = "range"
    /\ todo # {}
    /\ \E c \in todo :
         /\ cur' = c
         /\ todo' = todo \ {c}
         /\ sending' = sending \cup {<<c, event>>}
    /\ loopPc' = "send"
    /\ UNCHANGED <<clients, s, event, Notifier, hpc, hmsg, wpc, tr, prodVars,
                   histVars>>

\* Mutant: an event that found the Registry empty is put back on the
\* Notifier for the first subscriber to come
LoopRangeEnd_Requeue ==
    /\ loopPc = "range"
    /\ todo = {}
    /\ IF clients = {} /\ Len(Notifier) < NotifierCap
         THEN /\ Notifier' = Append(Notifier, event)
              /\ goneQ' = Append(goneQ, goneEv)
         ELSE UNCHANGED <<Notifier, goneQ>>
    /\ event' = 0
    /\ goneEv' = {}
    /\ over' = over \ {event}
    /\ loopPc' = "select"
    /\ UNCHANGED <<clients, s, todo, cur, sending, hpc, hmsg, wpc, tr,
                   prodPc, line, nread, verbose, nreq, processed, snap,
                   rcvd, deregs>>

\* the range is exhausted: back to the select
LoopRangeEnd ==
    /\ loopPc = "range"
    /\ todo = {}
    /\ event' = 0
    /\ goneEv' = {}
    /\ over' = over \ {event}
    /\ loopPc' = "select"
    /\ UNCHANGED <<clients, s, todo, cur, sending, Notifier, hpc, hmsg, wpc, tr,
                   prodPc, line, nread, verbose, nreq, processed, snap,
                   rcvd, deregs, goneQ>>

(***************************************************************************)
(* Broker.ServeHTTP                                                        *)
(***************************************************************************)
\* Connections are numbered in the order they are accepted
NextConn(c) == hpc[c] = "idle" /\ \A d \in Conns : d < c => hpc[d] # "idle"

\* Mutant: the http.Flusher check comes after the send on newClients, and
\* its return leaves the channel registered
HandlerReject_AfterRegister(c) ==
    /\ hpc[c] = "register"
    /\ loopPc = "select"
    /\ s' = c
    /\ loopPc' = "register"
    /\ hpc' = [hpc EXCEPT ![c] = "rejected"]
    /\ UNCHANGED <<clients, event, todo, cur, sending, Notifier, hmsg, wpc, tr,
                   prodVars, histVars>>

\* rw is no http.Flusher: http.Error and return, nothing registered
HandlerReject(c) ==
    /\ NextConn(c)
    /\ hpc' = [hpc EXCEPT ![c] = "rejected"]
    /\ UNCHANGED <<loopVars, Notifier, hmsg, wpc, tr, prodVars, histVars>>

\* rw is an http.Flusher: headers, make(chan []byte), and the handler
\* blocks in broker.newClients <- messageChan
HandlerStart(c) ==
    /\ NextConn(c)
    /\ hpc' = [hpc EXCEPT ![c] = "register"]
    /\ tr' = [tr EXCEPT ![c] = "open"]
    /\ UNCHANGED <<loopVars, Notifier, hmsg, wpc, prodVars, histVars>>

\* defer, then rw.(http.CloseNotifier).CloseNotify() and go func: the
\* unchecked type assertion panics when rw is no http.CloseNotifier, and
\* the deferred function then sends on closingClients
HandlerSetup(c) ==
    /\ hpc[c] = "setup"
    /\ \E isNotifier \in BOOLEAN :
         IF isNotifier
           THEN /\ hpc' = [hpc EXCEPT ![c] = "recv"]
                /\ wpc' = [wpc EXCEPT ![c] = "wait"]
           ELSE /\ hpc' = [hpc EXCEPT ![c] = "defer"]
                /\ wpc' = wpc
    /\ UNCHANGED <<loopVars, Notifier, hmsg, tr, prodVars, histVars>>

\* fmt.Fprintf(rw, "data: %s\n\n", <-messageChan): receives from a sender
\* blocked on this channel and formats the bytes the slice refers to now;
\* the loop, when it is that sender, goes on with its range
HandlerRecv(c) ==
    /\ hpc[c] = "recv"
    /\ \E p \in sending :
         /\ p[1] = c
         /\ sending' = sending \ {p}
         /\ hmsg' = [hmsg EXCEPT ![c] = Bytes(p[2])]
         /\ rcvd' = [rcvd EXCEPT ![c] = Append(@, p[2])]
    /\ hpc' = [hpc EXCEPT ![c] = "write"]
    /\ IF loopPc = "send" /\ cur = c
         THEN loopPc' = "range" /\ cur' = 0
         ELSE UNCHANGED <<loopPc, cur>>
    /\ UNCHANGED <<clients, s, event, todo, Notifier, wpc, tr, prodVars,
                   processed, snap, deregs, goneQ, goneEv>>

\* Mutant: a failed write makes the handler return, into the deferred send
\* on closingClients
HandlerWrite_ReturnOnError(c) ==
    /\ hpc[c] = "write"
    /\ tr[c] # "stalled"
    /\ hmsg' = [hmsg EXCEPT ![c] = 0]
    /\ hpc' = [hpc EXCEPT ![c] = IF tr[c] \in {"broken", "closed"}
                                   THEN "defer" ELSE "recv"]
    /\ UNCHANGED <<loopVars, Notifier, wpc, tr, prodVars, processed, snap,
                   rcvd, deregs, goneQ, goneEv>>

\* fmt.Fprintf(rw, ...) and flusher.Flush(): blocks while the peer does not
\* read; an error is not looked at and the loop goes round
HandlerWrite(c) ==
    /\ hpc[c] = "write"
    /\ tr[c] # "stalled"
    /\ hmsg' = [hmsg EXCEPT ![c] = 0]
    /\ hpc' = [hpc EXCEPT ![c] = "recv"]
    /\ UNCHANGED <<loopVars, Notifier, wpc, tr, prodVars, processed, snap,
                   rcvd, deregs, goneQ, goneEv>>

\* <-notify in the goroutine of lines 77-80
WatcherNotified(c) ==
    /\ wpc[c] = "wait"
    /\ tr[c] = "closed"
    /\ wpc' = [wpc EXCEPT ![c] = "send"]
    /\ UNCHANGED <<loopVars, Notifier, hpc, hmsg, tr, prodVars, histVars>>

(***************************************************************************)
(* The transport of a connection (net/http and the peer)                   *)
(***************************************************************************)
\* the peer stops reading: the write in progress blocks
Stall(c) ==
    /\ hpc[c] = "write"
    /\ tr[c] = "open"
    /\ tr' = [tr EXCEPT ![c] = "stalled"]
    /\ UNCHANGED <<loopVars, Notifier, hpc, hmsg, wpc, prodVars, histVars>>

\* the connection breaks under the write in progress: writes fail, and
\* CloseNotify has not fired yet
Break(c) ==
    /\ hpc[c] = "write"
    /\ tr[c] \in {"open", "stalled"}
    /\ tr' = [tr EXCEPT ![c] = "broken"]
    /\ UNCHANGED <<loopVars, Notifier, hpc, hmsg, wpc, prodVars, histVars>>

\* the transport reports the disconnect: the CloseNotify channel fires
Disconnect(c) ==
    /\ tr[c] \in {"open", "stalled", "broken"}
    /\ tr' = [tr EXCEPT ![c] = "closed"]
    /\ UNCHANGED <<loopVars, Notifier, hpc, hmsg, wpc, prodVars, histVars>>

LoopStep ==
    \/ \E c \in Conns : LoopRecvNew(c)
    \/ LoopRegister
    \/ \E c \in Conns : LoopRecvClosingDefer(c)
    \/ \E c \in Conns : LoopRecvClosingNotify(c)
    \/ LoopUnregister
    \/ LoopDequeue
    \/ LoopOffer
    \/ LoopRangeEnd

Next ==
    \/ ProducerScan
    \/ ProducerSend
    \/ LoopStep
    \/ \E c \in Conns : HandlerReject(c)
    \/ \E c \in Conns : HandlerStart(c)
    \/ \E c \in Conns : HandlerSetup(c)
    \/ \E c \in Conns : HandlerRecv(c)
    \/ \E c \in Conns : HandlerWrite(c)
    \/ \E c \in Conns : WatcherNotified(c)
    \/ \E c \in Conns : Stall(c)
    \/ \E c \in Conns : Break(c)
    \/ \E c \in Conns : Disconnect(c)

Spec == Init /\ [][Next]_vars

\* Every goroutine that can run is eventually scheduled; what the peers and
\* standard input do is not constrained
FairSpec ==
    /\ Spec
    /\ WF_vars(LoopStep)
    /\ WF_vars(ProducerSend)
    /\ \A c \in Conns : WF_vars(HandlerSetup(c))
    /\ \A c \in Conns : WF_vars(HandlerRecv(c))
    /\ \A c \in Conns : WF_vars(HandlerWrite(c))
    /\ \A c \in Conns : WF_vars(WatcherNotified(c))

(***************************************************************************)
(* The program under every producer mode and every input: lines may be     *)
(* empty, the input may end, reads may fail and may reuse the buffer.      *)
(***************************************************************************)
InputNext ==
    \/ ProducerScanAny
    \/ ProducerScanEnd
    \/ ProducerSend
    \/ ProducerLog
    \/ PromptPrint
    \/ PromptReadLine
    \/ PromptReadErr
    \/ PromptAfterErr
    \/ PromptSend
    \/ LoopStep
    \/ \E c \in 1..InputConns : HandlerStart(c)
    \/ \E c \in Conns : HandlerSetup(c)
    \/ \E c \in Conns : HandlerRecv(c)
    \/ \E c \in Conns : HandlerWrite(c)
    \/ \E c \in Conns : WatcherNotified(c)
    \/ \E c \in Conns : Stall(c)
    \/ \E c \in Conns : Break(c)
    \/ \E c \in Conns : Disconnect(c)

InputSpec == InitInput /\ [][InputNext]_vars

(***************************************************************************)
(* Broker.listen driven directly: any goroutine may send any channel on    *)
(* newClients and closingClients, in any order, and receives on the        *)
(* channels it registered.                                                 *)
(***************************************************************************)
\* broker.newClients <- ch, received by the select
DrvRegister(c) ==
    /\ loopPc = "select"
    /\ nreq < MaxReqs
    /\ nreq' = nreq + 1
    /\ s' = c
    /\ loopPc' = "register"
    /\ UNCHANGED <<clients, event, todo, cur, sending, Notifier, hpc, hmsg, wpc, tr,
                   prodPc, line, nread, verbose, over, histVars>>

\* broker.closingClients <- ch, received by the select
DrvDeregister(c) ==
    /\ loopPc = "select"
    /\ nreq < MaxReqs
    /\ nreq' = nreq + 1
    /\ s' = c
    /\ loopPc' = "unregister"
    /\ deregs' = [deregs EXCEPT ![c] = @ + 1]
    /\ UNCHANGED <<clients, event, todo, cur, sending, Notifier, hpc, hmsg, wpc, tr,
                   prodPc, line, nread, verbose, over, processed, snap,
                   rcvd, goneQ, goneEv>>

\* <-ch: receives from the sender blocked on the channel
DrvRecv(c) ==
    /\ \E p \in sending :
         /\ p[1] = c
         /\ sending' = sending \ {p}
         /\ rcvd' = [rcvd EXCEPT ![c] = Append(@, p[2])]
    /\ IF loopPc = "send" /\ cur = c
         THEN loopPc' = "range" /\ cur' = 0
         ELSE UNCHANGED <<loopPc, cur>>
    /\ UNCHANGED <<clients, s, event, todo, Notifier, hpc, hmsg, wpc, tr, prodVars,
                   processed, snap, deregs, goneQ, goneEv>>

DriverNext ==
    \/ ProducerScan
    \/ ProducerSend
    \/ \E c \in Conns : DrvRegister(c)
    \/ \E c \in Conns : DrvDeregister(c)
    \/ \E c \in Conns : DrvRecv(c)
    \/ LoopRegister
    \/ LoopUnregister
    \/ LoopDequeue
    \/ LoopOffer
    \/ LoopRangeEnd

DriverSpec == Init /\ [][DriverNext]_vars

TypeOK ==
    /\ clients \subseteq Conns
    /\ loopPc \in {"select", "register", "unregister", "range", "send"}
    /\ Len(Notifier) <= NotifierCap
    /\ todo \subseteq Conns
    /\ cur \in Conns \cup {0}
    /\ prodPc \in {"scan", "send", "log", "done", "prompt", "read", "perr", "psend"}
    /\ nread \in 0..MaxMsgs
    /\ over \subseteq Msgs
    /\ nreq \in 0..MaxReqs

(***************************************************************************)
(* Vocabulary of the properties                                            *)
(***************************************************************************)
RECURSIVE IsSubseq(_, _)
IsSubseq(a, b) ==
    IF a = <<>> THEN TRUE
    ELSE IF b = <<>> THEN FALSE
    ELSE IF Head(a) = Head(b) THEN IsSubseq(Tail(a), Tail(b))
    ELSE IsSubseq(a, Tail(b))

Count(q, m) == Cardinality({i \in DOMAIN q : q[i] = m})

\* the handler's send of line 66 has completed
RegSent(c) == hpc[c] \in {"setup", "recv", "write", "defer", "done"}

\* the loop has executed delete(broker.clients, c)
Unregistered(c) == deregs[c] > 0 /\ ~(loopPc = "unregister" /\ s = c)

\* nothing is waiting in or at an intake, and the loop is at its select
Drained ==
    /\ loopPc = "select"
    /\ Notifier = <<>>
    /\ \A c \in Conns : hpc[c] \notin {"register", "defer"} /\ wpc[c] # "send"

\* the handler is blocked in a transport write the peer does not take
Stalled(c) == hpc[c] = "write" /\ tr[c] = "stalled"

\* the fan-out of processed[i] has ended
FanoutDone(i) == i < Len(processed) \/ loopPc \notin {"range", "send"}

\* deregistration requests sent or being sent for the channel; the goroutine
\* of lines 77-80 counts from the moment its notification is there
Issued(c) ==
    deregs[c] + (IF hpc[c] = "defer" THEN 1 ELSE 0)
              + (IF wpc[c] = "send" \/ (wpc[c] = "wait" /\ tr[c] = "closed")
                   THEN 1 ELSE 0)

\* this step is a write of the handler that returns an error
WriteFails(c) ==
    hpc[c] = "write" /\ tr[c] \in {"broken", "closed"} /\ hpc'[c] # "write"

(***************************************************************************)
(* C1..C10                                                                 *)
(***************************************************************************)
\* C1: a subscriber whose handler never receives again (its transport write
\* is stalled) does not hold up the others: the loop is never blocked on a
\* send to it while another registered subscriber is still owed the message
\* being fanned out, or is owed a message waiting in the publish intake.
C1_StalledSubscriberBlocksNobody ==
    \A c \in Conns :
        (Stalled(c) /\ loopPc = "send" /\ cur = c) =>
            /\ todo = {}
            /\ Notifier # <<>> => clients \ {c} = {}

\* C2: once the loop has drained its intakes, the Registry holds exactly the
\* channels whose registration was sent and for which no deregistration was
\* sent (broker.clients is a map, so a key cannot appear twice).
C2_RegistryExactWhenDrained ==
    Drained => clients = {c \in Conns : RegSent(c) /\ deregs[c] = 0}

C2_Witness ==
    /\ Drained
    /\ processed # <<>>
    /\ \E c, d \in Conns : c \in clients /\ deregs[d] = 1 /\ d \notin clients

\* C3: a message the loop has dequeued is eventually offered to every channel
\* that was in the Registry when it was dequeued.
C3_DequeuedIsOfferedToAll ==
    \A c \in Conns : (c \in todo) ~> (c \notin todo)

\* C4: per subscriber, the messages received are, in order, a subsequence of
\* the messages the loop dequeued.
C4_PerSubscriberFifo ==
    \A c \in Conns : IsSubseq(rcvd[c], processed)

C4_Witness ==
    \E c \in Conns : Len(rcvd[c]) = 2 /\ rcvd[c][1] # rcvd[c][2]

\* C5: a channel receives a dequeued message at most once, never when it was
\* not in the Registry at the dequeue, and exactly once by the end of the
\* fan-out when it was; once the loop has processed deregister(c), c is in no
\* Registry, pending range or send any more.
C5_ExactlyOnceNoneAfterDeregister ==
    \A c \in Conns :
        /\ \A j \in DOMAIN rcvd[c] : \E i \in DOMAIN processed : processed[i] = rcvd[c][j]
        /\ \A i \in DOMAIN processed :
             LET n == Count(rcvd[c], processed[i]) IN
               /\ n <= 1
               /\ c \notin snap[i] => n = 0
               /\ (c \in snap[i] /\ FanoutDone(i)) => n = 1
        /\ Unregistered(c) =>
             /\ c \notin clients
             /\ c \notin todo
             /\ \A m \in Msgs : <<c, m>> \notin sending

C5_Witness ==
    /\ loopPc = "select"
    /\ Len(processed) = 2
    /\ \E c, d \in Conns :
         /\ snap[1] = {c, d} /\ c # d
         /\ Unregistered(d)
         /\ rcvd[c] = processed
         /\ rcvd[d] = <<processed[1]>>

\* C6: whichever path closes a connection (a failed write, the disconnect
\* notification, the handler's exit), exactly one deregistration is issued
\* for its channel: never two, and one as soon as the path is taken.
C6_DeregisterExactlyOnce ==
    [][\A c \in Conns :
         /\ Issued(c)' <= 1
         /\ (\/ WriteFails(c)
             \/ (wpc[c] = "wait" /\ tr[c] # "closed" /\ tr'[c] = "closed")
             \/ (hpc[c] = "setup" /\ hpc'[c] = "defer")) => Issued(c)' = 1]_vars

\* C7 as stated: a message published after a subscriber's transport reported
\* the disconnect finds the channel out of the Registry when it is dequeued
\* and is not delivered to it.
C7_NothingAfterDisconnect ==
    event # 0 =>
        \A c \in goneEv :
            /\ c \notin snap[Len(snap)]
            /\ Count(rcvd[c], event) = 0

\* C7 as amended: once the loop has processed the deregistration that the
\* disconnect triggers, the channel is out of the Registry at every later
\* dequeue and its handler receives nothing more; processing it leaves the
\* loop at its select.
C7_NothingAfterDisconnectDeregistered ==
    [][\A c \in Conns :
         /\ (tr[c] = "closed" /\ Unregistered(c)) =>
              /\ rcvd'[c] = rcvd[c]
              /\ c \notin clients'
              /\ Len(snap') > Len(snap) => c \notin snap'[Len(snap')]
         /\ (tr[c] = "closed" /\ loopPc = "unregister" /\ s = c /\ loopPc' # loopPc) =>
              /\ loopPc' = "select"
              /\ c \notin clients']_vars

C7_Witness ==
    \E c, d \in Conns :
        /\ tr[c] = "closed" /\ Unregistered(c)
        /\ Len(processed) = 2
        /\ rcvd[c] = <<processed[1]>>
        /\ c \notin snap[2] /\ d \in snap[2]
        /\ rcvd[d] = <<processed[2]>>

\* C8: a failed write takes the handler out of its relay loop: it goes on to
\* its deregistration and ends.
C8_WriteFailureCloses ==
    [][\A c \in Conns : WriteFails(c) => hpc'[c] \in {"defer", "done"}]_vars

\* C9: with no registration or deregistration of the channel in flight, the
\* channel is in the Registry if and only if its handler is in its relay loop.
C9_RegistryIffRelaying ==
    \A c \in Conns :
        (/\ ~(loopPc \in {"register", "unregister"} /\ s = c)
         /\ hpc[c] \notin {"register", "setup", "defer"}
         /\ wpc[c] # "send"
         /\ ~(wpc[c] = "wait" /\ tr[c] = "closed"))
        => (c \in clients <=> hpc[c] \in {"recv", "write"})

\* C10: after the transport reported the disconnect to the handler (the
\* goroutine waiting on CloseNotify exists), the handler eventually
\* terminates.
C10_DisconnectedHandlerTerminates ==
    \A c \in Conns : (tr[c] = "closed" /\ wpc[c] # "none") ~> (hpc[c] = "done")

\* C11: deregistering is idempotent: when listen processes a deregistration
\* for a channel that is not in the Registry (never registered, or already
\* deregistered), the Registry stays as it was and listen is back at its
\* select; the members of the Registry go on getting every message dequeued
\* while they are members exactly once.
C11_DeregisterAbsentIsNoop ==
    /\ [][(loopPc = "unregister" /\ s \notin clients /\ loopPc' # loopPc)
            => (clients' = clients /\ loopPc' = "select")]_vars
    /\ [](\A i \in DOMAIN processed : \A c \in snap[i] :
            FanoutDone(i) => Count(rcvd[c], processed[i]) = 1)

\* channel c was never registered and has been deregistered twice; member d
\* has received the event dequeued after that
C11_Witness ==
    \E c \in Conns, d \in Conns :
        /\ deregs[c] = 2
        /\ c \notin clients
        /\ rcvd[c] = <<>>
        /\ d \in clients
        /\ loopPc = "range" /\ todo = {}
        /\ rcvd[d] = <<event>>

\* The producer is evaluating len(broker.clients) (PromptHandler's prompt, or
\* the log line of main under -v)
ReadsRegistry == prodPc \in {"prompt", "log"}

\* listen is executing broker.clients[s] = true or delete(broker.clients, s)
WritesRegistry == loopPc \in {"register", "unregister"}

\* C12: the Registry is accessed only by listen: no other goroutine reads or
\* writes broker.clients, so no access is concurrent with a mutation by
\* listen.
C12_RegistryConfinedToLoop == ~(ReadsRegistry /\ WritesRegistry)

\* C13: a message is passed through unmodified: the bytes a handler writes
\* are the bytes of the line the producer published, whatever the producer
\* reads while the message is in the Notifier or in the fan-out.
C13_BytesUnmodified ==
    \A c \in Conns :
        hpc[c] = "write" => hmsg[c] = rcvd[c][Len(rcvd[c])]

C15_RejectedNeverRegisters ==
    \A c \in Conns :
        hpc[c] = "rejected" =>
            /\ c \notin clients
            /\ s # c
            /\ c \notin todo
            /\ \A i \in DOMAIN snap : c \notin snap[i]
            /\ rcvd[c] = <<>>
            /\ deregs[c] = 0
            /\ wpc[c] = "none"
            /\ tr[c] = "none"

\* c was rejected while d is registered and has received a message
C15_Witness ==
    \E c \in Conns, d \in Conns :
        /\ hpc[c] = "rejected"
        /\ d \in clients
        /\ rcvd[d] # <<>>

\* The messages that have entered the Notifier, in order
Intake == processed \o Notifier

\* The lines the producer has read and is not still about to send
LinesDone == IF prodPc \in {"send", "psend"} THEN nread - 1 ELSE nread

\* C16: each line the producer reads becomes exactly one message, and the
\* messages enter the Notifier in the order the lines were read, in both
\* producer modes and for empty lines too.
C16_OneMessagePerLine == Intake = [i \in 1..LinesDone |-> i]

\* Writes on c's transport fail or its disconnect has been reported, and the
\* handler is in its streaming loop
Faulted(c) == tr[c] \in {"broken", "closed"} /\ wpc[c] # "none"

\* The producer has met a read error or the end of its input
ProducerFaulted == prodPc \in {"perr", "done"}

\* C17: no subscriber or producer fault stops listen: listen has no exit,
\* and whenever it is sending to a channel whose connection has had a write
\* failure or a disconnect, that connection's handler is there to receive,
\* so listen goes on to serve the other connections; a producer that met a
\* read error leaves listen and the handlers as they are.
C17_FaultsNeverStopLoop ==
    /\ loopPc \in {"select", "register", "unregister", "range", "send"}
    /\ \A c \in Conns :
         (loopPc = "send" /\ cur = c /\ Faulted(c))
           => (ENABLED HandlerRecv(c) \/ ENABLED HandlerWrite(c))

\* after a read error of the producer and a failed write on c, listen is
\* offering c the next message and c's handler is receiving
C17_Witness ==
    \E c \in Conns :
        /\ ProducerFaulted
        /\ tr[c] = "broken"
        /\ wpc[c] = "wait"
        /\ rcvd[c] # <<>>
        /\ loopPc = "send" /\ cur = c
        /\ hpc[c] = "recv"

\* C18: a publish blocks exactly when the Notifier is at capacity: the
\* Notifier never holds more than NotifierCap messages, the producer's send
\* can complete whenever fewer are pending, and cannot while NotifierCap are,
\* so it is released by the dequeue that makes room.
C18_PublishBlocksOnlyWhenFull ==
    /\ Len(Notifier) <= NotifierCap
    /\ prodPc = "send" => (ENABLED ProducerSend <=> Len(Notifier) < NotifierCap)
    /\ prodPc = "psend" => (ENABLED PromptSend <=> Len(Notifier) < NotifierCap)

\* the producer holds line 2 and is blocked: line 1 is still in the Notifier
C18_Witness ==
    /\ prodPc = "send"
    /\ line = 2
    /\ Notifier = <<1>>
    /\ ~ENABLED ProducerSend

\* C19: registration is a rendezvous: once the handler's send on newClients
\* has completed, its channel is in the Registry unless listen is at the
\* insert itself, and every event whose fan-out runs while no deregistration
\* of the channel has been received was dequeued with the channel in the
\* Registry, so it is offered to it.
C19_RegisteredBeforeNextEvent ==
    \A c \in Conns :
        (RegSent(c) /\ deregs[c] = 0) =>
            /\ c \notin clients => (loopPc = "register" /\ s = c)
            /\ loopPc \in {"range", "send"} => c \in snap[Len(snap)]

\* c's send has returned and its handler has not run further, and the event
\* listen is fanning out is being offered to c
C19_Witness ==
    \E c \in Conns :
        /\ hpc[c] = "setup"
        /\ loopPc = "send"
        /\ cur = c
        /\ <<c, event>> \in sending

\* C20: listen and a handler never wait on each other: in no state is listen
\* blocked sending an event on a registered channel while the handler of
\* that channel is blocked sending on newClients or closingClients, the
\* deferred send of lines 70-72 included.
C20_NoMutualWait ==
    ~ \E c \in clients :
          /\ loopPc = "send"
          /\ cur = c
          /\ hpc[c] \in {"register", "defer"}

====
